---- MODULE Spec2Model ----
(***************************************************************************)
(* Scan orchestration and triage engine of the devsecops pipeline.         *)
(*                                                                         *)
(* One worker (celery worker_concurrency = 1) takes jobs one at a time:    *)
(* execute_scan_job runs perform_scan_background, which creates the Scan   *)
(* row, prepares the source, calls the scanner service, parses reports and *)
(* then runs run_brain_background inline; execute_triage_job runs          *)
(* run_brain_background alone for an existing scan id.                     *)
(* run_brain_background waits for the AI services, prepares a working      *)
(* copy, persists the findings, runs the LangGraph workflow                *)
(* (triage -> red_team -> remediate -> sanity_check -> publish, once per   *)
(* finding) and stores the results.                                        *)
(*                                                                         *)
(* Every external call (database, git, HTTP, model, sandbox, hosting API)  *)
(* either succeeds or raises; the choice is nondeterministic.              *)
(***************************************************************************)
EXTENDS Integers, Sequences, FiniteSets, TLC

\* ---------------------------------------------------------------- bounds
\* Longest list of findings a job is given.
MaxFindings == 2
\* Number of job deliveries the worker handles when messages are delivered
\* again (SpecDeliveries).
MaxJobs == 2
\* Readiness polls that may find the services not ready before the deadline.
MaxPolls == 1
\* Findings of one scan that are handed to the Publisher.
MaxPublished == 3
\* Longest list of findings a job is given where the list is followed only
\* up to the start of the workflow (SpecFeed); longer than TRIAGE_LIMIT.
MaxInput == 22

\* ------------------------------------------------------- program constants
TRIAGE_LIMIT == 20
\* config={"recursion_limit": 150} of the call of the workflow
RECURSION_LIMIT == 150

CRITICAL_MODULES == {"auth", "jwt", "session", "encrypt"}

\* ------------------------------------------------------------------ values
\* Python's None / a present value, for the nullable fields of a finding.
None == <<>>
Some(x) == <<x>>
IsNone(o) == o = <<>>
Val(o) == o[1]

\* A text is the sequence of its lines.  A line is named by what matters of
\* it: one of the critical words it contains, a code fence (three backticks
\* with or without a language tag), a blank line, or other code.
FENCE == "fence"
BLANK == ""
CODE == "code"

\* str.strip() on a text: leading and trailing blank lines go.
RECURSIVE LStrip(_)
LStrip(t) == IF t # <<>> /\ Head(t) = BLANK THEN LStrip(Tail(t)) ELSE t

RECURSIVE RStrip(_)
RStrip(t) ==
    IF t # <<>> /\ t[Len(t)] = BLANK THEN RStrip(SubSeq(t, 1, Len(t) - 1)) ELSE t

Strip(t) == RStrip(LStrip(t))

\* re.sub of an opening fence with its newline, then replace of the remaining
\* fences by nothing: a fence line that is followed by a newline disappears
\* with its newline, a fence on the last line leaves an empty last line.
RemoveFences(t) ==
    LET keep(l) == l # FENCE
        inner == SelectSeq(t, keep)
    IN  IF t # <<>> /\ t[Len(t)] = FENCE THEN Append(inner, BLANK) ELSE inner

CleanPatch(content) == Strip(RemoveFences(content))

\* w in text
Contains(t, w) == \E i \in DOMAIN t : t[i] = w

\* len(text.strip()) == 0
IsBlankText(t) == \A i \in DOMAIN t : t[i] = BLANK

\* len(text.splitlines())
LineCount(t) == Len(t)

\* not patch, for a value that is None or a str
Falsy(o) == IsNone(o) \/ Val(o) = <<>>

\* ------------------------------------------------- triage verdict parsing
Letters == {"T", "P", "F", "H", "t", "p", "f", "N", "o"}
Upper(c) == CASE c = "t" -> "T" [] c = "p" -> "P" [] c = "f" -> "F"
              [] c = "o" -> "O" [] OTHER -> c

\* A reply that is classified as it came.
NormalizeVerdict_Raw(content) == content

\* re.sub of every non-letter by nothing, then upper()
NormalizeVerdict(content) ==
    LET isLetter(c) == c \in Letters
        letters == SelectSeq(content, isLetter)
    IN  [i \in DOMAIN letters |-> Upper(letters[i])]

HasTP(s) == \E i \in 1..(Len(s) - 1) : s[i] = "T" /\ s[i + 1] = "P"

ClassifyVerdict(content) == IF HasTP(NormalizeVerdict(content)) THEN "TP" ELSE "FP"

\* ------------------------------------------------------------------ inputs
\* Model replies to the triage prompt (characters).
TriageResponses ==
    { <<"T", "P">>, <<"F", "P">>, <<"t", ".", "p">>, <<"N", "o">>,
      <<"H", "T", "T", "P">> }

\* Model replies to the remediation prompt (lines).
RemediateResponses ==
    { <<FENCE, CODE, FENCE>>,
      <<"auth", CODE>>,
      <<FENCE, FENCE>> }

\* Snippets that populate_snippets can leave on a finding: the number of
\* lines of the snippet and the critical words it contains.
Snippets ==
    { [lines |-> 1, words |-> {}],
      [lines |-> 11, words |-> {"auth", "jwt"}] }

\* ------------------------------------------------------------------- state
VARIABLES
    scans,      \* table scans: scan id (position) -> status
    rows,       \* table findings: finding id (position) -> row
    fs,         \* directories that exist under /tmp/scans
    prs,        \* pull requests opened on the hosting platform so far
    delivered,  \* job messages the worker has taken so far
    budget,     \* the inputs of this behaviour: deliveries, findings per job
    job,        \* the handler the worker is running and where it is
    wf,         \* GraphState of the running workflow
    hist,       \* what the running job has done so far (observation only)
    drv,        \* the run of SecurityScanner.run_scan in the scanner service
    mq,         \* how the broker was told to settle each delivery, in order
    progress,   \* the progress hashes scan:<id>:state of the side store
    dash,       \* the dashboard: project of each scan, rows deleted, request
    io,         \* the call of a normalizer or progress function: input, result
    pub         \* the Publisher: its working copy, the remote, the call under way

vars == <<scans, rows, fs, prs, delivered, budget, job, wf, hist, drv, mq,
          progress, dash, io, pub>>

\* The variables of the orchestrator and its worker.
coreVars == <<scans, rows, fs, prs, delivered, budget, job, wf, hist, mq>>

\* The variables of the services beside the worker.
auxVars == <<drv, progress, dash, io, pub>>

Terminal == {"completed", "failed"}

\* A finding dict as the normalizer emits it; src is its position in the
\* list the job was given.  The other keys are added on the way.
NewFinding(i) ==
    [src |-> i, id |-> 0, snippet |-> None, ai_verdict |-> "none",
     remediation_patch |-> None, pr_url |-> 0, pr_error |-> None,
     red_team_success |-> "unset"]

NoJob ==
    [kind |-> "none", pc |-> "idle", scan_id |-> 0, path |-> "none",
     clone |-> FALSE, findings |-> <<>>, raised |-> FALSE, polls |-> 0,
     steps |-> 0]

NoWorkflow ==
    [findings |-> <<>>, current_index |-> 0, analyzed_findings |-> <<>>]

\* What the running job has done: the statuses it wrote, whether the
\* analyzers were launched, whether the readiness wait timed out, the
\* directories it made, whether it was cancelled; and for the finding the
\* workflow is at: the calls made for it, what sanity_check did with it, the
\* patch remediate produced, the patches the Publisher was called with, the
\* reply of the model to the triage prompt, the calls that raised an error;
\* whether a call raised for an earlier finding; the length of the list of
\* findings the job was given; the log records that carry a credential,
\* written by the job before its workflow.
NoHist ==
    [writes |-> <<>>, launched |-> FALSE, ready_timeout |-> FALSE,
     calls |-> {}, sanity |-> "none", produced |-> None, pub_calls |-> {},
     cancelled |-> FALSE, pr_after_cancel |-> FALSE, made |-> {},
     row_created |-> FALSE, reply |-> None, failed |-> {},
     earlier_failed |-> FALSE, given |-> 0, leaks |-> {}]

\* A path is the sequence of its parts; a separator is a part of its own.
SEP == "/"
\* target_path, the source directory run_scan is given, and shared_src_dir,
\* the directory /tmp/scans/<scan_id>_src it makes for the tools.
SRC == "target_path"
WS == "shared_src_dir"

\* No run_scan is under way.
NoDriver ==
    [pc |-> "idle", changed_files |-> <<>>, target_url |-> FALSE,
     files |-> {}, semgrep_targets |-> <<>>, no_git |-> FALSE,
     exits |-> {}, report_files |-> <<>>]

\* No key scan:<id>:state exists in the side store.
NoProgress == [sid \in {} |-> None]

\* The dashboard between requests: the project_name of the scans that other
\* projects than the worker's own hold, the ids of the rows deleted so far
\* (ids are not used again), and the delete_project request under way.
NoDash ==
    [project |-> <<>>, gone_scans |-> {}, gone_findings |-> {},
     pc |-> "idle", repo |-> "", scan_ids |-> {}, result |-> "none",
     before |-> [scans |-> {}, findings |-> {}]]

\* The working copy as it was cloned, on the commit that was scanned
\* (branch 0): no patch written, staged, committed or pushed, no pull
\* request open, no call of create_security_pr under way.
NoPub ==
    [pc |-> "idle", call |-> 0, head |-> 0, tree |-> {}, index |-> {},
     commits |-> [b \in {0} |-> {}], remote |-> [b \in {} |-> {}],
     pulls |-> {}, done |-> <<>>, result |-> "none"]

\* No call of a normalizer or progress function has been made.
NoCall == [fn |-> "none", arg |-> None, out |-> None, raised |-> FALSE]

\* The worker is idle and the store holds one scan, registered by the API
\* with the column default pending, whose execute_triage_job message is in
\* the queue.
InitWorker ==
    /\ scans = <<"pending">>
    /\ rows = <<>>
    /\ fs = {}
    /\ prs = 0
    /\ delivered = 0
    /\ job = NoJob
    /\ wf = NoWorkflow
    /\ hist = NoHist
    /\ mq = <<>>

InitStore ==
    /\ InitWorker
    /\ drv = NoDriver
    /\ progress = NoProgress
    /\ dash = NoDash
    /\ io = NoCall
    /\ pub = NoPub

\* One delivery, of a scan job or of the triage job.
Init ==
    /\ InitStore
    /\ budget = [jobs |-> 1, findings |-> MaxFindings, snippets |-> Snippets]

\* Several deliveries, the same triage message among them more than once.
InitDeliveries ==
    /\ InitStore
    /\ budget = [jobs |-> MaxJobs, findings |-> 1, snippets |-> Snippets]

\* One delivery of a job with at most one finding, while the dashboard
\* serves requests.
InitRace ==
    /\ InitStore
    /\ budget = [jobs |-> 1, findings |-> 1, snippets |-> Snippets]

\* One delivery with a list of up to MaxInput findings, whose files all
\* give the same short snippet.
InitFeed ==
    /\ InitStore
    /\ budget = [jobs |-> 1, findings |-> MaxInput,
                 snippets |-> {s \in Snippets : s.words = {}}]

\* ------------------------------------------------------------ finding store
\* db.query(Scan).filter(Scan.id == scan_id).update({"status": s}); commit
SetStatus(tbl, id, s) ==
    IF id \in DOMAIN tbl THEN [tbl EXCEPT ![id] = s] ELSE tbl

\* The status writes of the running job, in order.
Wrote(h, s) == [h EXCEPT !.writes = Append(@, s)]

\* save_telemetry: append an entry to the sandbox_logs of the finding row
AppendLog(tbl, id, stage, success) ==
    IF id \in DOMAIN tbl
    THEN [tbl EXCEPT ![id].sandbox_logs = Append(@, <<stage, success>>)]
    ELSE tbl

\* models.Finding(scan_id=scan_id, **f) for a finding with its snippet
NewRow(sid, f) ==
    [scan_id |-> sid, src |-> f.src, snippet |-> f.snippet,
     ai_verdict |-> "none", remediation_patch |-> None, pr_url |-> 0,
     pr_error |-> None, red_team_success |-> "unset", sandbox_logs |-> <<>>]

\* Step 6: the columns of the row are overwritten by the keys of the dict
UpdatedRow(r, f) ==
    [r EXCEPT !.snippet = f.snippet,
              !.ai_verdict = f.ai_verdict,
              !.remediation_patch = f.remediation_patch,
              !.pr_url = f.pr_url,
              !.red_team_success = f.red_team_success]

RECURSIVE PersistResults(_, _)
PersistResults(tbl, fsq) ==
    IF fsq = <<>> THEN tbl
    ELSE LET f == Head(fsq)
             t == IF f.id # 0 /\ f.id \in DOMAIN tbl
                  THEN [tbl EXCEPT ![f.id] = UpdatedRow(@, f)]
                  ELSE tbl
         IN  PersistResults(t, Tail(fsq))

\* ---------------------------------------------------- perform_scan_background
\* The worker takes an execute_scan_job message.  The path does not exist
\* (the job returns at once), or is an upload directory under
\* /tmp/scans/uploads/, or is /app with a repo_url to clone from.
StartScanJob ==
    /\ job.pc = "idle"
    /\ delivered < budget.jobs
    /\ \E p \in {"missing", "remote", "upload"} :
         /\ job' = [NoJob EXCEPT !.kind = "scan", !.path = p,
                                 !.pc = IF p = "missing" THEN "done"
                                        ELSE "create_scan"]
         /\ fs' = IF p = "upload" THEN fs \cup {"upload"} ELSE fs
    /\ delivered' = delivered + 1
    /\ hist' = NoHist
    /\ wf' = NoWorkflow
    /\ UNCHANGED <<scans, rows, prs, budget, mq, auxVars>>

\* Step 0: the Scan row, status scanning; a database error ends the job.
CreateScan ==
    /\ job.pc = "create_scan"
    /\ \/ /\ scans' = Append(scans, "scanning")
          /\ job' = [job EXCEPT !.scan_id = Len(scans) + 1,
                                !.pc = IF job.path = "remote"
                                       THEN "clone" ELSE "detect"]
          /\ hist' = [Wrote(hist, "scanning") EXCEPT !.row_created = TRUE]
       \/ /\ job' = [job EXCEPT !.pc = "scan_finally"]
          /\ UNCHANGED <<scans, hist>>
    /\ UNCHANGED <<rows, fs, prs, delivered, budget, mq, auxVars, wf>>

\* A clone-failure handler that lacks its return: the job goes on.
CloneFailedNext_NoReturn == "detect"

\* Where the job goes after a failed clone was recorded: return.
CloneFailedNext == "scan_finally"

\* The error of a failed git command names the command, and with it
\* clone_url, which holds GITHUB_TOKEN where one is set and was injected;
\* the handler logs the error as it is.
LogCloneFailed(h, token) ==
    IF token THEN [h EXCEPT !.leaks = @ \cup {"git_clone_failed"}] ELSE h

\* Step 0.5: git clone --depth 2 and checkout into /tmp/scans/<uid>_src.
CloneRepo ==
    /\ job.pc = "clone"
    /\ \/ /\ fs' = fs \cup {"clone"}
          /\ job' = [job EXCEPT !.clone = TRUE, !.pc = "detect"]
          /\ hist' = [hist EXCEPT !.made = @ \cup {"clone"}]
          /\ UNCHANGED scans
       \/ \E left \in BOOLEAN, dbok \in BOOLEAN, token \in BOOLEAN :
          /\ fs' = IF left THEN fs \cup {"clone"} ELSE fs
          /\ IF dbok
             THEN /\ scans' = SetStatus(scans, job.scan_id, "failed")
                  /\ hist' = [Wrote(LogCloneFailed(hist, token), "failed") EXCEPT
                                !.made = IF left THEN @ \cup {"clone"} ELSE @]
                  /\ job' = [job EXCEPT !.clone = TRUE, !.pc = CloneFailedNext]
             ELSE /\ scans' = scans
                  /\ hist' = [LogCloneFailed(hist, token) EXCEPT
                                !.made = IF left THEN @ \cup {"clone"} ELSE @]
                  /\ job' = [job EXCEPT !.clone = TRUE, !.pc = "scan_finally"]
    /\ UNCHANGED <<rows, prs, delivered, budget, mq, auxVars, wf>>

\* Steps 0.7 and 0.8: changed-file detection, stack detection and the
\* sandbox deploy; every error is caught and logged.
DetectStack ==
    /\ job.pc = "detect"
    /\ job' = [job EXCEPT !.pc = "scan"]
    /\ UNCHANGED <<scans, rows, fs, prs, delivered, budget, mq, auxVars, wf, hist>>

\* Step 1: POST /scan; the scanner service launches the analyzer tools.
CallScanner ==
    /\ job.pc = "scan"
    /\ \/ /\ job' = [job EXCEPT !.pc = "parse"]
          /\ hist' = [hist EXCEPT !.launched = TRUE]
          /\ UNCHANGED scans
       \/ \E sent \in BOOLEAN, dbok \in BOOLEAN :
          /\ job' = [job EXCEPT !.pc = "scan_finally"]
          /\ IF dbok
             THEN /\ scans' = SetStatus(scans, job.scan_id, "failed")
                  /\ hist' = [Wrote(hist, "failed") EXCEPT !.launched = sent]
             ELSE /\ scans' = scans
                  /\ hist' = [hist EXCEPT !.launched = sent]
    /\ UNCHANGED <<rows, fs, prs, delivered, budget, mq, auxVars, wf>>

\* Step 2: POST /parse for each report; a report that fails is skipped.
ParseReports ==
    /\ job.pc = "parse"
    /\ \E n \in 0..budget.findings :
         /\ job' = [job EXCEPT !.findings = [i \in 1..n |-> NewFinding(i)],
                               !.pc = "set_analyzing"]
         /\ hist' = [hist EXCEPT !.given = n]
    /\ UNCHANGED <<scans, rows, fs, prs, delivered, budget, mq, auxVars, wf>>

\* Step 3: status analyzing; an error here reaches the outer handler,
\* which only logs.
SetAnalyzing ==
    /\ job.pc = "set_analyzing"
    /\ \/ /\ scans' = SetStatus(scans, job.scan_id, "analyzing")
          /\ hist' = Wrote(hist, "analyzing")
          /\ job' = [job EXCEPT !.pc = "ready"]
       \/ /\ job' = [job EXCEPT !.pc = "scan_finally"]
          /\ UNCHANGED <<scans, hist>>
    /\ UNCHANGED <<rows, fs, prs, delivered, budget, mq, auxVars, wf>>

\* finally: the upload directory and the clone directory are removed.
ScanCleanup(dirs, j) ==
    (dirs \ (IF j.path = "upload" THEN {"upload"} ELSE {}))
          \ (IF j.clone THEN {"clone"} ELSE {})

ScanFinally ==
    /\ job.pc = "scan_finally"
    /\ fs' = ScanCleanup(fs, job)
    /\ job' = [job EXCEPT !.pc = "done"]
    /\ UNCHANGED <<scans, rows, prs, delivered, budget, mq, auxVars, wf, hist>>

\* Whether the task function raised: perform_scan_background catches every
\* Exception itself, run_brain_background lets some out, and
\* execute_triage_job raises them again; a CancelledError passes both.
HandlerRaised(j, h) == j.raised /\ (j.kind = "triage" \/ h.cancelled)

\* Celery default, which celery_app.conf.update leaves as it is: a task
\* that failed is acknowledged like one that succeeded.
task_acks_on_failure_or_timeout == TRUE

\* task_acks_late = True: the message is settled after the task has run;
\* an error of the task gives reject(requeue=False) only where
\* task_acks_on_failure_or_timeout is off.
Settle(raised) ==
    IF ~raised \/ task_acks_on_failure_or_timeout THEN "ack" ELSE "reject"

\* The handler has returned or raised; the message is settled and the
\* worker is free for the next message.
Finish ==
    /\ job.pc = "done"
    /\ job' = NoJob
    /\ mq' = Append(mq, [raised |-> HandlerRaised(job, hist),
                         outcome |-> Settle(HandlerRaised(job, hist))])
    /\ UNCHANGED <<scans, rows, fs, prs, delivered, budget, auxVars, wf, hist>>

\* ------------------------------------------------------ run_brain_background
\* The worker takes an execute_triage_job message for an existing scan.
StartTriageJob ==
    /\ job.pc = "idle"
    /\ delivered < budget.jobs
    /\ \E sid \in DOMAIN scans, n \in 0..budget.findings :
         /\ job' = [NoJob EXCEPT !.kind = "triage", !.scan_id = sid,
                                 !.findings = [i \in 1..n |-> NewFinding(i)],
                                 !.pc = "ready"]
         /\ hist' = [NoHist EXCEPT !.row_created = TRUE, !.given = n]
    /\ delivered' = delivered + 1
    /\ wf' = NoWorkflow
    /\ UNCHANGED <<scans, rows, fs, prs, budget, mq, auxVars>>

\* Where control goes when run_brain_background returns or raises: back
\* into perform_scan_background (whose try block it ends) or out of the task.
BrainExit(j) == IF j.kind = "scan" THEN "scan_finally" ELSE "done"

\* Step 0: ensure_services_ready polls the readiness endpoints until both
\* answer 200 (True) or the deadline has passed (False); on False the scan
\* is marked failed and the function returns.
EnsureServicesReady ==
    /\ job.pc = "ready"
    /\ \/ /\ job' = [job EXCEPT !.pc = "prepare", !.polls = 0]
          /\ UNCHANGED <<scans, hist>>
       \/ /\ job.polls < MaxPolls
          /\ job' = [job EXCEPT !.polls = @ + 1]
          /\ UNCHANGED <<scans, hist>>
       \/ \E dbok \in BOOLEAN :
          /\ job' = [job EXCEPT !.pc = BrainExit(job), !.polls = 0,
                                !.raised = ~dbok]
          /\ IF dbok
             THEN /\ scans' = SetStatus(scans, job.scan_id, "failed")
                  /\ hist' = [Wrote(hist, "failed") EXCEPT !.ready_timeout = TRUE]
             ELSE /\ scans' = scans
                  /\ hist' = [hist EXCEPT !.ready_timeout = TRUE]
    /\ UNCHANGED <<rows, fs, prs, delivered, budget, mq, auxVars, wf>>

\* A list that is handed on whole.
FindingsToProcess_All(fsq) == fsq

\* findings[:TRIAGE_LIMIT]
FindingsToProcess(fsq) ==
    SubSeq(fsq, 1, IF Len(fsq) < TRIAGE_LIMIT THEN Len(fsq) ELSE TRIAGE_LIMIT)

\* Step 1: the working copy /tmp/scans/brain_scan_<id>_<uid>: a copy of the
\* local source path, or a clone and checkout.  A failure may leave the
\* directory behind.
\* How the working copy is made: perform_scan_background passes its path
\* as local_source_path; execute_triage_job may come with one or without.
SourceModes(j) == IF j.kind = "scan" THEN {"local"} ELSE {"local", "clone"}

\* The log records that carry a credential.  Before it clones,
\* run_brain_background logs repo_url, which it built with the token of
\* the job in it; the formatter writes the message as it is.
LogCloning(h, mode) ==
    IF mode = "clone" THEN [h EXCEPT !.leaks = @ \cup {"cloning"}] ELSE h

PrepareSource ==
    /\ job.pc = "prepare"
    /\ \E mode \in SourceModes(job) :
       \/ /\ fs' = fs \cup {"brain"}
          /\ hist' = [LogCloning(hist, mode) EXCEPT !.made = @ \cup {"brain"}]
          /\ job' = [job EXCEPT !.pc = "snippets",
                                !.findings = FindingsToProcess(@)]
       \/ \E left \in BOOLEAN :
          /\ fs' = IF left THEN fs \cup {"brain"} ELSE fs
          /\ hist' = [LogCloning(hist, mode) EXCEPT
                        !.made = IF left THEN @ \cup {"brain"} ELSE @]
          /\ job' = [job EXCEPT !.pc = "brain_except",
                                !.findings = FindingsToProcess(@)]
    /\ UNCHANGED <<scans, rows, prs, delivered, budget, mq, auxVars, wf>>

\* Step 2: populate_snippets gives every finding a snippet.
PopulateSnippets ==
    /\ job.pc = "snippets"
    /\ \E sn \in [DOMAIN job.findings -> budget.snippets] :
         job' = [job EXCEPT
                   !.findings = [i \in DOMAIN job.findings |->
                                   [job.findings[i] EXCEPT !.snippet = Some(sn[i])]],
                   !.pc = "prepersist"]
    /\ UNCHANGED <<scans, rows, fs, prs, delivered, budget, mq, auxVars, wf, hist>>

\* Step 3: one row per finding, committed together; the ids go back into
\* the dicts.  Step 4 (the EPSS sync) and a database error raise.
PrePersist ==
    /\ job.pc = "prepersist"
    /\ \/ LET n == Len(job.findings)
              base == Len(rows)
              stamped == [i \in 1..n |-> [job.findings[i] EXCEPT !.id = base + i]]
          IN  /\ rows' = rows \o [i \in 1..n |-> NewRow(job.scan_id, job.findings[i])]
              /\ \/ /\ job' = [job EXCEPT !.findings = stamped, !.pc = "triage"]
                    /\ wf' = [findings |-> stamped, current_index |-> 0,
                              analyzed_findings |-> <<>>]
                 \/ /\ job' = [job EXCEPT !.findings = stamped,
                                          !.pc = "brain_except"]
                    /\ UNCHANGED wf
       \/ /\ job' = [job EXCEPT !.pc = "brain_except"]
          /\ UNCHANGED <<rows, wf>>
    /\ UNCHANGED <<scans, fs, prs, delivered, budget, mq, auxVars, hist>>

\* Step 6: the results of the workflow and status completed, one commit.
PersistAndComplete ==
    /\ job.pc = "persist"
    /\ \/ /\ rows' = PersistResults(rows, wf.analyzed_findings)
          /\ scans' = SetStatus(scans, job.scan_id, "completed")
          /\ hist' = Wrote(hist, "completed")
          /\ job' = [job EXCEPT !.pc = "brain_finally"]
       \/ /\ job' = [job EXCEPT !.pc = "brain_except"]
          /\ UNCHANGED <<rows, scans, hist>>
    /\ UNCHANGED <<fs, prs, delivered, budget, mq, auxVars, wf>>

\* except Exception: status failed; if that update raises too, the error
\* leaves the function.
BrainExcept ==
    /\ job.pc = "brain_except"
    /\ \/ /\ scans' = SetStatus(scans, job.scan_id, "failed")
          /\ hist' = Wrote(hist, "failed")
          /\ job' = [job EXCEPT !.pc = "brain_finally"]
       \/ /\ job' = [job EXCEPT !.pc = "brain_finally", !.raised = TRUE]
          /\ UNCHANGED <<scans, hist>>
    /\ UNCHANGED <<rows, fs, prs, delivered, budget, mq, auxVars, wf>>

\* A finally block that leaves the working copy.
BrainCleanup_Keep(dirs) == dirs

\* finally: shutil.rmtree(temp_src) if it exists
BrainCleanup(dirs) == dirs \ {"brain"}

BrainFinally ==
    /\ job.pc = "brain_finally"
    /\ fs' = BrainCleanup(fs)
    /\ job' = [job EXCEPT !.pc = BrainExit(job)]
    /\ UNCHANGED <<scans, rows, prs, delivered, budget, mq, auxVars, wf, hist>>

\* ------------------------------------------------------------ the workflow
\* A graph in which remediate leads to publish, past sanity_check.
Edge_SkipSanity(node) ==
    CASE node = "triage" -> "red_team"
      [] node = "red_team" -> "remediate"
      [] node = "remediate" -> "publish"
      [] node = "sanity_check" -> "publish"

\* The edges of the graph: triage -> red_team -> remediate -> sanity_check
\* -> publish.
Edge(node) ==
    CASE node = "triage" -> "red_team"
      [] node = "red_team" -> "remediate"
      [] node = "remediate" -> "sanity_check"
      [] node = "sanity_check" -> "publish"

\* should_continue: END (the workflow returns) or the next finding.
ShouldContinue(state) ==
    IF state.current_index >= Len(state.findings) THEN "persist" ELSE "triage"

\* The nodes of the graph.
Nodes == {"triage", "red_team", "remediate", "sanity_check", "publish"}

\* One step of the run: a node ran and the run goes on to the next node or
\* to END.  ainvoke is given recursion_limit; a run that has taken that
\* many steps and has not reached END raises.
Stepped(j, to) ==
    [j EXCEPT !.steps = @ + 1,
              !.pc = IF j.steps + 1 >= RECURSION_LIMIT /\ to \in Nodes
                     THEN "brain_except" ELSE to]

\* The finding the later nodes work on: analyzed[-1].
Last(sq) == sq[Len(sq)]

\* Nodes that work on analyzed[0].
SetLast_First(sq, f) == [sq EXCEPT ![1] = f]

\* finding = analyzed[-1]; the dict is changed in place
SetLast(sq, f) == [sq EXCEPT ![Len(sq)] = f]

Called(h, svc, stage) == [h EXCEPT !.calls = @ \cup {<<svc, stage>>}]

\* A call of a node raised an error.
Failed(h, svc, stage) == [h EXCEPT !.failed = @ \cup {<<svc, stage>>}]

\* The reply to the triage prompt is observed until the next node runs.
Heard(h) == [h EXCEPT !.reply = None]

\* The model, the sandbox and the Publisher, as opposed to the database.
Services == {"llm", "sandbox", "publisher"}

\* The observations about one finding start afresh at its triage; the log
\* records of the steps before the workflow are observed up to there.
NextFinding(h) ==
    [h EXCEPT !.calls = {}, !.sanity = "none", !.produced = None,
              !.pub_calls = {}, !.reply = None, !.failed = {}, !.leaks = {},
              !.earlier_failed = @ \/ (\E f \in h.failed : f[1] \in Services)]

\* Nodes that catch no error.
Caught_Nothing(node) == FALSE

\* Whether the calls a node makes are inside a try block with an
\* except Exception clause: all but the telemetry write of sanity_check.
Caught(node) == node \in {"triage", "red_team", "remediate", "publish"}

\* Where a node goes after one of its calls raised: on as usual when the
\* node catches the error, else out of the workflow with the error.
AfterError(node, onward) == IF Caught(node) THEN onward ELSE "brain_except"

\* node_triage.  findings[index] is read before the bounds check, so an
\* index past the end raises.  A reply is classified; an error of the model
\* call gives FP.
NodeTriage ==
    /\ job.pc = "triage"
    /\ LET index == wf.current_index
       IN  IF index >= Len(wf.findings)
           THEN /\ job' = Stepped(job, "brain_except")
                /\ UNCHANGED <<wf, hist>>
           ELSE \E reply \in {Some(r) : r \in TriageResponses} \cup {None} :
                LET finding == wf.findings[index + 1]
                    raised == IsNone(reply)
                    ai_verdict == IF raised THEN "FP"
                                  ELSE ClassifyVerdict(Val(reply))
                    new_finding == [finding EXCEPT !.ai_verdict = ai_verdict]
                    seen == Called(NextFinding(hist), "llm", "triage")
                IN  /\ wf' = [wf EXCEPT
                                !.analyzed_findings = Append(@, new_finding),
                                !.current_index = index + 1]
                    /\ hist' = IF raised THEN Failed(seen, "llm", "triage")
                               ELSE [seen EXCEPT !.reply = reply]
                    /\ job' = Stepped(job,
                                 IF raised
                                 THEN AfterError("triage", Edge("triage"))
                                 ELSE Edge("triage"))
    /\ UNCHANGED <<scans, rows, fs, prs, delivered, budget, mq, auxVars>>

\* Nodes that do not look at the verdict.
IsTruePositive_Always(f) == TRUE

\* the test ai_verdict == TP of node_red_team and node_remediate
IsTruePositive(f) == f.ai_verdict = "TP"

\* node_red_team: for a TP, a PoC from the model, run in the sandbox, the
\* outcome appended to the sandbox log; any error gives red_team_success
\* False.
NodeRedTeam ==
    /\ job.pc = "red_team"
    /\ IF wf.analyzed_findings = <<>> \/ ~IsTruePositive(Last(wf.analyzed_findings))
       THEN /\ job' = Stepped(job, Edge("red_team"))
            /\ hist' = Heard(hist)
            /\ UNCHANGED <<wf, rows>>
       ELSE LET finding == Last(wf.analyzed_findings)
                set(v) == [wf EXCEPT !.analyzed_findings =
                             SetLast(@, [finding EXCEPT !.red_team_success = v])]
                onward == Edge("red_team")
                failing == Stepped(job, AfterError("red_team", onward))
                asked == Called(Heard(hist), "llm", "red_team")
                ran == Called(asked, "sandbox", "red_team")
            IN  \/ /\ wf' = set("false")
                   /\ hist' = Failed(asked, "llm", "red_team")
                   /\ rows' = rows
                   /\ job' = failing
                \/ /\ wf' = set("false")
                   /\ hist' = Failed(ran, "sandbox", "red_team")
                   /\ rows' = rows
                   /\ job' = failing
                \/ \E success \in BOOLEAN, dbok \in BOOLEAN :
                   IF dbok
                   THEN /\ rows' = AppendLog(rows, finding.id, "RED_TEAM_POC", success)
                        /\ wf' = set(IF success THEN "true" ELSE "false")
                        /\ hist' = ran
                        /\ job' = Stepped(job, onward)
                   ELSE /\ rows' = rows
                        /\ wf' = set("false")
                        /\ hist' = Failed(ran, "db", "red_team")
                        /\ job' = failing
    /\ UNCHANGED <<scans, fs, prs, delivered, budget, mq, auxVars>>

\* node_remediate: for a TP, the reply of the model without its code fences,
\* stripped, becomes remediation_patch; an error leaves the finding as it is.
NodeRemediate ==
    /\ job.pc = "remediate"
    /\ IF wf.analyzed_findings = <<>> \/ ~IsTruePositive(Last(wf.analyzed_findings))
       THEN /\ job' = Stepped(job, Edge("remediate"))
            /\ UNCHANGED <<wf, hist>>
       ELSE LET finding == Last(wf.analyzed_findings)
                onward == Edge("remediate")
                asked == Called(hist, "llm", "remediate")
            IN  \/ \E content \in RemediateResponses :
                   LET clean_patch == CleanPatch(content)
                   IN  /\ wf' = [wf EXCEPT !.analyzed_findings =
                                   SetLast(@, [finding EXCEPT
                                       !.remediation_patch = Some(clean_patch)])]
                       /\ hist' = [asked EXCEPT !.produced = Some(clean_patch)]
                       /\ job' = Stepped(job, onward)
                \/ /\ wf' = wf
                   /\ hist' = Failed(asked, "llm", "remediate")
                   /\ job' = Stepped(job, AfterError("remediate", onward))
    /\ UNCHANGED <<scans, rows, fs, prs, delivered, budget, mq, auxVars>>

\* The three reasons node_sanity_check rejects a patch for.
DeletedCriticals(snippet, patch) ==
    {w \in CRITICAL_MODULES : w \in snippet.words /\ ~Contains(patch, w)}

IsEmpty(patch) == IsBlankText(patch)

IsWiped(snippet, patch) == LineCount(patch) < 2 /\ snippet.lines > 10

Rejected(snippet, patch) ==
    DeletedCriticals(snippet, patch) # {} \/ IsEmpty(patch) \/ IsWiped(snippet, patch)

\* node_sanity_check: returns at once when there is no patch (not patch);
\* else a rejected patch is set to None, and the outcome is appended to the
\* sandbox log; an error of that append leaves the workflow.
NodeSanityCheck ==
    /\ job.pc = "sanity_check"
    /\ IF wf.analyzed_findings = <<>>
       THEN /\ job' = Stepped(job, Edge("sanity_check"))
            /\ UNCHANGED <<wf, hist, rows>>
       ELSE LET finding == Last(wf.analyzed_findings)
                patch == finding.remediation_patch
                onward == Edge("sanity_check")
            IN  IF Falsy(patch)
                THEN /\ job' = Stepped(job, onward)
                     /\ hist' = [hist EXCEPT !.sanity = "skip"]
                     /\ UNCHANGED <<wf, rows>>
                ELSE LET bad == Rejected(Val(finding.snippet), Val(patch))
                         after == IF bad
                                  THEN [finding EXCEPT !.remediation_patch = None]
                                  ELSE finding
                         judged == [hist EXCEPT
                                      !.sanity = IF bad THEN "reject" ELSE "pass"]
                     IN  /\ wf' = [wf EXCEPT !.analyzed_findings = SetLast(@, after)]
                         /\ \/ /\ rows' = IF finding.id # 0
                                          THEN AppendLog(rows, finding.id,
                                                         "SANITY_CHECK", ~bad)
                                          ELSE rows
                               /\ hist' = judged
                               /\ job' = Stepped(job, onward)
                            \/ /\ finding.id # 0
                               /\ rows' = rows
                               /\ hist' = Failed(judged, "db", "sanity_check")
                               /\ job' = Stepped(job,
                                            AfterError("sanity_check", onward))
    /\ UNCHANGED <<scans, fs, prs, delivered, budget, mq, auxVars>>

\* A publish node that does not test the patch.
HasPatch_Always(patch) == TRUE

\* the test (not patch) of node_publish
HasPatch(patch) == ~Falsy(patch)

\* node_publish: with a patch, create_security_pr is called; its URL is
\* stored in pr_url, its error is caught.  Then should_continue.
NodePublish ==
    /\ job.pc = "publish"
    /\ IF wf.analyzed_findings = <<>>
          \/ ~HasPatch(Last(wf.analyzed_findings).remediation_patch)
       THEN /\ job' = Stepped(job, ShouldContinue(wf))
            /\ UNCHANGED <<wf, hist, prs>>
       ELSE LET finding == Last(wf.analyzed_findings)
                call == finding.remediation_patch
                onward == ShouldContinue(wf)
            IN  \/ /\ prs' = prs + 1
                   /\ wf' = [wf EXCEPT !.analyzed_findings =
                               SetLast(@, [finding EXCEPT !.pr_url = prs + 1])]
                   /\ hist' = [hist EXCEPT
                                 !.pub_calls = @ \cup {call},
                                 !.pr_after_cancel = @ \/ hist.cancelled]
                   /\ job' = Stepped(job, onward)
                \/ /\ prs' = prs
                   /\ wf' = wf
                   /\ hist' = Failed([hist EXCEPT !.pub_calls = @ \cup {call}],
                                     "publisher", "publish")
                   /\ job' = Stepped(job, AfterError("publish", onward))
    /\ UNCHANGED <<scans, rows, fs, delivered, budget, mq, auxVars>>

\* ------------------------------------------------------------ cancellation
\* The task is cancelled while it waits at an await: CancelledError is
\* raised there.  It is not an Exception, so no except Exception handler
\* runs, only the finally blocks; the bare except around the readiness
\* probe catches it, and the job goes on.
AwaitsInScan == {"detect", "scan", "parse"}
AwaitsInBrain ==
    {"snippets", "triage", "red_team", "remediate", "sanity_check", "publish"}

Cancel ==
    /\ ~hist.cancelled
    /\ hist.row_created
    /\ \/ /\ job.pc \in AwaitsInScan
          /\ job' = [job EXCEPT !.pc = "scan_finally", !.raised = TRUE]
       \/ /\ job.pc \in AwaitsInBrain \/ (job.pc = "prepare" /\ job.kind = "triage")
          /\ job' = [job EXCEPT !.pc = "brain_finally", !.raised = TRUE]
       \/ /\ job.pc = "ready"
          /\ \/ job' = job
             \/ job' = [job EXCEPT !.pc = BrainExit(job), !.raised = TRUE,
                                   !.polls = 0]
    /\ hist' = [hist EXCEPT !.cancelled = TRUE]
    /\ UNCHANGED <<scans, rows, fs, prs, delivered, budget, mq, auxVars, wf>>

\* ---------------------------------------------------------- analyzer driver
\* Longest list of changed files run_scan is given.
MaxChanged == 2

\* Entries of changed_files: with one or two leading separators, or none.
ChangedPaths == { <<SEP, "a">>, <<SEP, SEP, "a">>, <<"b">> }

\* Files of the source tree, relative to target_path.
TreeFiles == { <<"a">>, <<"b">> }

\* Entries of changed_files that name the parent directory.
EscapingPaths == { <<"..", SEP, "x">>, <<SEP, "..", SEP, "x">> }

\* The directory target_path lies in, and SCAN_DIR, the directory
\* shared_src_dir lies in.
Parent(dir) == IF dir = WS THEN "SCAN_DIR" ELSE "target_parent"

\* Files next to the source tree, in the directory target_path lies in.
OutsideFiles == { <<Parent(SRC), SEP, "x">> }

\* The file a path names once the system has followed its '..' parts: the
\* '..' after a directory names the directory that one lies in.
Resolve(p) ==
    IF Len(p) >= 4 /\ p[2] = SEP /\ p[3] = ".."
    THEN <<Parent(p[1])>> \o SubSeq(p, 4, Len(p))
    ELSE p

\* A path names a file of the directory dir.
Inside(dir, p) == Len(Resolve(p)) >= 3 /\ SubSeq(Resolve(p), 1, 2) = <<dir, SEP>>

\* An entry taken as it came.
Sanitize_Not(f) == f

\* str.lstrip of the separator
RECURSIVE LStripSep(_)
LStripSep(p) == IF p # <<>> /\ Head(p) = SEP THEN LStripSep(Tail(p)) ELSE p

\* safe_f = f.lstrip("/")
Sanitize(f) == LStripSep(f)

\* os.path.join(base, p): a p that starts with a separator replaces base
Join(base, p) == IF p # <<>> /\ Head(p) = SEP THEN p ELSE <<base, SEP>> \o p

\* cp -r target_path shared_src_dir: where a file of the source tree lands
Rebase(p) == <<WS, SEP>> \o SubSeq(p, 3, Len(p))

\* os.path.exists
Exists(files, p) == Resolve(p) \in files

\* The tools of one run: zap only with a target_url.
Tasks(target_url) ==
    {"semgrep", "gitleaks", "trivy"} \cup (IF target_url THEN {"zap"} ELSE {})

\* An allow-list that lets every exit code pass.
AllowedExitCodes_Any(name) == {0, 1, 2, 3}

\* codes = [0, 1, 2] if name in [zap, checkov] else [0]
AllowedExitCodes(name) == IF name \in {"zap", "checkov"} THEN {0, 1, 2} ELSE {0}

\* Exit codes a tool ends with; a launch that raises has no exit code.
ExitCodes == {0, 1, 3}
Outcomes == {Some(c) : c \in ExitCodes} \cup {None}

\* _exec_docker: True for an exit code of the allow-list, False for another
\* exit code and for an error of the launch.
ExecDocker(name, outcome) ==
    ~IsNone(outcome) /\ Val(outcome) \in AllowedExitCodes(name)

\* /tmp/scans/<name>_<scan_id>.<ext>
ReportPath(name) ==
    <<name, IF name \in {"gitleaks", "zap", "checkov"} THEN "json" ELSE "sarif">>

\* All sequences over S of length up to n.
SeqsUpTo(S, n) == UNION {[1..k -> S] : k \in 0..n}

\* run_scan is called with a source tree, a list of changed files (empty for
\* a full scan) and, for a dynamic scan, a target_url.
RunScanWith(entries, others) ==
    /\ drv.pc = "idle"
    /\ \E changed \in SeqsUpTo(entries, MaxChanged),
          tree \in SUBSET TreeFiles, outside \in SUBSET others,
          url \in BOOLEAN :
         drv' = [NoDriver EXCEPT !.pc = "copy",
                                 !.changed_files = changed,
                                 !.target_url = url,
                                 !.files = {Join(SRC, r) : r \in tree}
                                              \cup outside]
    /\ UNCHANGED <<coreVars, pub, progress, dash, io>>

\* The changed files are files of the repository.
RunScan == RunScanWith(ChangedPaths, {})

\* The changed files are whatever the caller of the endpoint sent.
RunScanAny == RunScanWith(ChangedPaths \cup EscapingPaths, OutsideFiles)

\* Step 1: the changed files that exist, or the whole tree, are copied into
\* shared_src_dir; an error of cp or chmod ends the run with no report.
CopySource ==
    /\ drv.pc = "copy"
    /\ LET changed == drv.changed_files
           delta == {Resolve(Join(WS, Sanitize(changed[i]))) : i \in
                       {k \in DOMAIN changed :
                          Exists(drv.files, Join(SRC, Sanitize(changed[k])))}}
           full == {Rebase(q) : q \in drv.files}
           copied == drv.files \cup (IF changed # <<>> THEN delta ELSE full)
       IN  \/ drv' = [drv EXCEPT !.files = copied, !.pc = "build"]
           \/ \E left \in {drv.files, copied} :
                drv' = [drv EXCEPT !.files = left, !.pc = "returned"]
    /\ UNCHANGED <<coreVars, pub, progress, dash, io>>

\* Step 2: the commands.  Semgrep is given the changed files that exist in
\* shared_src_dir, or the directory when there is none or the scan is full;
\* gitleaks gets --no-git in delta mode.
BuildCommands ==
    /\ drv.pc = "build"
    /\ LET changed == drv.changed_files
           abs_path == [i \in DOMAIN changed |-> Join(WS, Sanitize(changed[i]))]
           there(q) == Exists(drv.files, q)
           target_files == SelectSeq(abs_path, there)
       IN  drv' = [drv EXCEPT
                     !.semgrep_targets =
                         IF changed # <<>> /\ target_files # <<>>
                         THEN target_files ELSE << <<WS>> >>,
                     !.no_git = (changed # <<>>),
                     !.pc = "run"]
    /\ UNCHANGED <<coreVars, pub, progress, dash, io>>

\* The tools run at the same time; as_completed takes them in the order
\* they end, and the report path of a tool whose _exec_docker returned True
\* is appended.
ToolFinishes ==
    /\ drv.pc = "run"
    /\ \E name \in Tasks(drv.target_url) \ {e[1] : e \in drv.exits},
          outcome \in Outcomes :
         drv' = [drv EXCEPT
                   !.exits = @ \cup {<<name, outcome>>},
                   !.report_files = IF ExecDocker(name, outcome)
                                    THEN Append(@, ReportPath(name)) ELSE @]
    /\ UNCHANGED <<coreVars, pub, progress, dash, io>>

\* return report_files, when every future is done
ReturnReports ==
    /\ drv.pc = "run"
    /\ {e[1] : e \in drv.exits} = Tasks(drv.target_url)
    /\ drv' = [drv EXCEPT !.pc = "returned"]
    /\ UNCHANGED <<coreVars, pub, progress, dash, io>>

\* ------------------------------------------------------------ progress store
\* Largest step number update_step is called with.
MaxStep == 2

\* The fields of a hash that has none.
NoHash ==
    [stage |-> None, step_number |-> None, total_steps |-> None,
     message |-> None, status |-> None, error |-> None]

\* HGETALL scan:<id>:state
HGet(store, sid) == IF sid \in DOMAIN store THEN store[sid] ELSE NoHash

\* HSET scan:<id>:state with the fields of h
HPut(store, sid, h) ==
    [k \in DOMAIN store \cup {sid} |-> IF k = sid THEN h ELSE store[k]]

\* DEL scan:<id>:state for every id of ids
HDel(store, ids) == [k \in DOMAIN store \ ids |-> store[k]]

update_stage(store, sid, stage) ==
    HPut(store, sid, [HGet(store, sid) EXCEPT !.stage = Some(stage)])

update_step(store, sid, step, total, message, status) ==
    HPut(store, sid, [HGet(store, sid) EXCEPT !.step_number = Some(step),
                                              !.total_steps = Some(total),
                                              !.message = Some(message),
                                              !.status = Some(status)])

complete(store, sid) ==
    HPut(store, sid, [HGet(store, sid) EXCEPT !.status = Some("completed")])

fail(store, sid, error) ==
    HPut(store, sid, [HGet(store, sid) EXCEPT !.status = Some("failed"),
                                              !.error = Some(error)])

Stages == {"Scanning", "Analyzing"}

\* A call of a StateManager method: self.client.hset either writes the
\* hash or, the store being unavailable, raises; no method catches it.
Called_StateManager(fn, sid, up, written) ==
    /\ progress' = IF up THEN written ELSE progress
    /\ io' = [fn |-> fn, arg |-> Some(sid), out |-> None, raised |-> ~up]
    /\ UNCHANGED <<coreVars, pub, drv, dash>>

UpdateStage ==
    \E sid \in DOMAIN scans, stage \in Stages, up \in BOOLEAN :
        Called_StateManager("update_stage", sid, up,
                            update_stage(progress, sid, stage))

UpdateStep ==
    \E sid \in DOMAIN scans, step \in 1..MaxStep, up \in BOOLEAN :
        Called_StateManager("update_step", sid, up,
                            update_step(progress, sid, step, MaxStep, "m",
                                        "running"))

Complete ==
    \E sid \in DOMAIN scans, up \in BOOLEAN :
        Called_StateManager("complete", sid, up, complete(progress, sid))

Fail ==
    \E sid \in DOMAIN scans, up \in BOOLEAN :
        Called_StateManager("fail", sid, up, fail(progress, sid, "e"))

\* ---------------------------------------------------------------- dashboard
\* Largest number of scans the store holds when a project is deleted.
MaxScans == 3

Projects == {"p", "q"}

\* The rows that exist: a deleted row keeps its place in the table, and
\* its id is in gone_scans or gone_findings.
LiveScans(d) == DOMAIN scans \ d.gone_scans
LiveFindings(d) == DOMAIN rows \ d.gone_findings

\* Scan.project_name: the scans the worker's jobs are about, and the ones
\* they create, belong to the project of the job.
ProjectOf(d, sid) == IF sid \in DOMAIN d.project THEN d.project[sid] ELSE "p"

\* db.query(Scan).filter(Scan.project_name == repo)
ScansOf(d, repo) == {sid \in LiveScans(d) : ProjectOf(d, sid) = repo}

\* db.query(Finding).filter(Finding.scan_id.in_(scan_ids))
FindingsOf(d, scan_ids) ==
    {fid \in LiveFindings(d) : rows[fid].scan_id \in scan_ids}

\* The request has returned; its result stays to be read.
Returned(d, result) == [d EXCEPT !.pc = "idle", !.result = result]

\* DELETE /api/project: without a repo an error is returned; step 1 finds
\* the scans of the project and returns when there are none; an error of
\* the query is caught, rolled back and reported.
DeleteProject ==
    /\ dash.pc = "idle"
    /\ \E repo \in Projects \cup {""} :
         LET asked == [dash EXCEPT !.repo = repo, !.scan_ids = {},
                         !.before = [scans |-> dash.gone_scans,
                                     findings |-> dash.gone_findings]]
         IN  IF repo = ""
             THEN dash' = Returned(asked, "repo_required")
             ELSE \/ dash' = Returned(asked, "failed")
                  \/ dash' = IF ScansOf(dash, repo) = {}
                             THEN Returned(asked, "not_found")
                             ELSE [asked EXCEPT !.pc = "delete",
                                                !.result = "none",
                                                !.scan_ids = ScansOf(dash, repo)]
    /\ UNCHANGED <<coreVars, pub, drv, progress, io>>

\* Steps 2 to 4: the findings of the scans found, the scans of the
\* project, and the commit; an error before the commit has ended is caught
\* and rolled back, and nothing is deleted.
DeleteRows ==
    /\ dash.pc = "delete"
    /\ \/ dash' = [dash EXCEPT
                     !.gone_findings = @ \cup FindingsOf(dash, dash.scan_ids),
                     !.gone_scans = @ \cup ScansOf(dash, dash.repo),
                     !.pc = "clean_cache"]
       \/ dash' = Returned(dash, "failed")
    /\ UNCHANGED <<coreVars, pub, drv, progress, io>>

\* Step 5, after the commit: where cache is set the keys of the project
\* and of its scans are deleted.  An error of the cache is caught by the
\* same handler: db.rollback() has nothing left to undo, and the request
\* reports that the deletion failed.
CleanCache ==
    /\ dash.pc = "clean_cache"
    /\ \/ /\ progress' \in {progress, HDel(progress, dash.scan_ids)}
          /\ dash' = Returned(dash, "success")
       \/ /\ progress' = progress
          /\ dash' = Returned(dash, "failed")
    /\ UNCHANGED <<coreVars, pub, drv, io>>

\* The store when the dashboard is asked to delete: up to MaxScans scans
\* of the projects, finished, with up to MaxFindings findings among them,
\* and their progress hashes still cached or expired.
InitDelete ==
    /\ \E n \in 1..MaxScans, m \in 0..MaxFindings, cached \in BOOLEAN :
         \E pr \in [1..n -> Projects], own \in [1..m -> 1..n] :
            /\ scans = [i \in 1..n |-> "completed"]
            /\ rows = [i \in 1..m |->
                          NewRow(own[i], [NewFinding(i) EXCEPT
                                            !.snippet = Some([lines |-> 1,
                                                              words |-> {}])])]
            /\ dash = [NoDash EXCEPT !.project = pr]
            /\ progress = IF cached
                          THEN [sid \in 1..n |->
                                  [NoHash EXCEPT !.status = Some("completed")]]
                          ELSE NoProgress
    /\ fs = {}
    /\ prs = 0
    /\ delivered = 0
    /\ job = NoJob
    /\ wf = NoWorkflow
    /\ hist = NoHist
    /\ mq = <<>>
    /\ budget = [jobs |-> 0, findings |-> MaxFindings, snippets |-> Snippets]
    /\ drv = NoDriver
    /\ io = NoCall
    /\ pub = NoPub

\* ---------------------------------------------------------- report normalizer
\* Longest path, in parts, that follows one of the PathPrefixes.
MaxPathLen == 4

\* file:// in parts.
FILE_SCHEME == <<"file:", SEP, SEP>>

\* path.startswith(pre)
StartsWith(path, pre) ==
    Len(path) >= Len(pre) /\ SubSeq(path, 1, Len(pre)) = pre

\* path.replace(pat, ""): every occurrence, from the left
RECURSIVE RemoveAll(_, _)
RemoveAll(path, pat) ==
    IF path = <<>> THEN <<>>
    ELSE IF StartsWith(path, pat)
         THEN RemoveAll(SubSeq(path, Len(pat) + 1, Len(path)), pat)
         ELSE <<Head(path)>> \o RemoveAll(Tail(path), pat)

\* The length of the match of ^/tmp/(scans|uploads)/[^/]+/ in path, 0
\* where there is none.
TmpPrefixLen(path) ==
    IF /\ Len(path) >= 7
       /\ SubSeq(path, 1, 3) = <<SEP, "tmp", SEP>>
       /\ path[4] \in {"scans", "uploads"}
       /\ path[5] = SEP
       /\ path[6] # SEP
       /\ \E j \in 7..Len(path) : path[j] = SEP
    THEN CHOOSE j \in 7..Len(path) :
            path[j] = SEP /\ \A k \in 6..(j - 1) : path[k] # SEP
    ELSE 0

\* _clean_path
clean_path(path) ==
    IF path = <<>> THEN <<>>
    ELSE LET bare == IF StartsWith(path, FILE_SCHEME)
                     THEN RemoveAll(path, FILE_SCHEME) ELSE path
             cleaned == SubSeq(bare, TmpPrefixLen(bare) + 1, Len(bare))
         IN  IF StartsWith(cleaned, <<SEP>>) THEN LStripSep(cleaned)
             ELSE cleaned

\* The uris a report can give for a file: a prefix the scanner's
\* workspace gives, then up to MaxPathLen parts.
PathParts == {SEP, "file:", "tmp", "a"}
PathPrefixes ==
    { <<>>, FILE_SCHEME,
      <<SEP, "tmp", SEP, "scans", SEP, "a", SEP>>,
      <<SEP, "tmp", SEP, "uploads", SEP, "a", SEP>> }
Paths == {pre \o rest : pre \in PathPrefixes,
                        rest \in SeqsUpTo(PathParts, MaxPathLen)}

\* A call of _clean_path.
CleanPath ==
    /\ io.fn = "none"
    /\ io' = [io EXCEPT !.fn = "_clean_path",
                        !.out = Some(clean_path(Val(io.arg)))]
    /\ UNCHANGED <<coreVars, pub, drv, progress, dash>>

\* The path to clean is any of Paths.
InitClean ==
    /\ InitWorker
    /\ budget = [jobs |-> 0, findings |-> MaxFindings, snippets |-> Snippets]
    /\ drv = NoDriver
    /\ progress = NoProgress
    /\ dash = NoDash
    /\ pub = NoPub
    /\ \E path \in Paths : io = [NoCall EXCEPT !.arg = Some(path)]

\* Most results, issues or alerts in a report, and most parses in a row.
MaxResults == 2
MaxParses == 4

\* FORBIDDEN_PATHS: a finding whose path contains one of them is dropped.
FORBIDDEN_PATHS ==
    {".github", "venv", "node_modules", "k8s-specifications",
     "docker-compose", "Dockerfile", ".yml", ".yaml", "semgrep.sarif",
     "gitleaks.json", "checkov.sarif"}

\* any(forbidden in file_path for forbidden in FORBIDDEN_PATHS)
Forbidden(path) == \E i \in DOMAIN path : path[i] \in FORBIDDEN_PATHS

\* The uris of the reports parsed here.
ReportUris ==
    { <<"a">>,
      <<SEP, "tmp", SEP, "scans", SEP, "a", SEP, "a">>,
      <<"venv", SEP, "a">> }

\* A result of a SARIF run: without the key locations, with an empty list
\* of locations, or with a location that has a uri and a startLine.
SarifResults ==
    {[locations |-> "none", uri |-> <<>>, line |-> 0],
     [locations |-> "empty", uri |-> <<>>, line |-> 0]}
    \cup {[locations |-> "uri", uri |-> u, line |-> 3] : u \in ReportUris}

\* An entry of a Gitleaks report, with or without the key Description.
GitleaksIssues == {[File |-> u, desc |-> d] : u \in ReportUris, d \in BOOLEAN}

\* The bytes of a report file, by what json.loads makes of them: nothing
\* (not JSON), a number, an object without a known key, a SARIF log of one
\* run, a list of Gitleaks entries, a ZAP report of one site.
Reports ==
    {[kind |-> "malformed"], [kind |-> "number"], [kind |-> "object"]}
    \cup {[kind |-> "sarif", results |-> r] :
             r \in SeqsUpTo(SarifResults, MaxResults)}
    \cup {[kind |-> "gitleaks", issues |-> r] :
             r \in SeqsUpTo(GitleaksIssues, MaxResults)}
    \cup {[kind |-> "zap", alerts |-> n] : n \in 0..MaxResults}

\* The reports parsed between two parses of the report under test.
OtherReports ==
    {[kind |-> "malformed"],
     [kind |-> "sarif",
      results |-> <<[locations |-> "uri", uri |-> <<"a">>, line |-> 3]>>]}

\* One finding of a SARIF result; its path is cleaned twice.
SarifFinding(res) ==
    [tool |-> "Semgrep", rule_id |-> "r", message |-> "m",
     file |-> clean_path(clean_path(res.uri)), line |-> res.line]

GitleaksFinding(issue) ==
    [tool |-> "Gitleaks", rule_id |-> "r",
     message |-> IF issue.desc THEN "m" ELSE "None",
     file |-> clean_path(clean_path(issue.File)), line |-> 1]

ZapFinding ==
    [tool |-> "OWASP ZAP", rule_id |-> "r", message |-> "m",
     file |-> <<"dast-report">>, line |-> 0]

\* The loop over the results of a run or the entries of a Gitleaks list:
\* an entry with a forbidden path is passed over.
RECURSIVE Extracted(_, _)
Extracted(entries, sarif) ==
    IF entries = <<>> THEN <<>>
    ELSE LET e == Head(entries)
             file_path == clean_path(IF sarif THEN e.uri ELSE e.File)
         IN  IF Forbidden(file_path) THEN Extracted(Tail(entries), sarif)
             ELSE <<IF sarif THEN SarifFinding(e) ELSE GitleaksFinding(e)>>
                  \o Extracted(Tail(entries), sarif)

\* What extract_findings does when an error is raised while it parses.
OnError_Raise == [raised |-> TRUE, findings |-> <<>>]

\* except json.JSONDecodeError and except Exception: return []
OnError == [raised |-> FALSE, findings |-> <<>>]

\* extract_findings.  json.loads raises on bytes that are not JSON, the
\* test "runs" in data raises on a number, and [0] raises on an empty list
\* of locations; a Gitleaks list counts as one only if its first entry has
\* the key Description.
extract_findings(content) ==
    CASE content.kind = "malformed" -> OnError
      [] content.kind = "number" -> OnError
      [] content.kind = "sarif" ->
            IF \E i \in DOMAIN content.results :
                  content.results[i].locations = "empty"
            THEN OnError
            ELSE [raised |-> FALSE,
                  findings |-> Extracted(content.results, TRUE)]
      [] content.kind = "gitleaks" ->
            [raised |-> FALSE,
             findings |-> IF content.issues # <<>> /\ content.issues[1].desc
                          THEN Extracted(content.issues, FALSE) ELSE <<>>]
      [] content.kind = "zap" ->
            [raised |-> FALSE,
             findings |-> [i \in 1..content.alerts |-> ZapFinding]]
      [] OTHER -> [raised |-> FALSE, findings |-> <<>>]

\* A call of extract_findings on the report under test or on another
\* report; what it returned is kept in order.
Parsed(content) ==
    io' = [io EXCEPT !.fn = "extract_findings",
                     !.out = Some(Append(Val(@),
                                [content |-> content,
                                 result |-> extract_findings(content)]))]

ParseReport ==
    /\ io.fn \in {"parse", "extract_findings"}
    /\ Len(Val(io.out)) < MaxParses
    /\ Parsed(Val(io.arg))
    /\ UNCHANGED <<coreVars, pub, drv, progress, dash>>

ParseOther ==
    /\ io.fn \in {"parse", "extract_findings"}
    /\ Len(Val(io.out)) < MaxParses
    /\ \E content \in OtherReports : Parsed(content)
    /\ UNCHANGED <<coreVars, pub, drv, progress, dash>>

\* The report under test is any of Reports; nothing has been parsed.
InitParse ==
    /\ InitWorker
    /\ budget = [jobs |-> 0, findings |-> MaxFindings, snippets |-> Snippets]
    /\ drv = NoDriver
    /\ progress = NoProgress
    /\ dash = NoDash
    /\ pub = NoPub
    /\ \E content \in Reports :
          io = [fn |-> "parse", arg |-> Some(content), out |-> Some(<<>>),
                raised |-> FALSE]

\* ------------------------------------------------------- snippet population
\* Longest file, in lines, and largest line number a finding reports.
MaxFileLines == 6
MaxLine == 8

NOT_FOUND == "Source code not found on local Fedora disk."
FILE_EMPTY == "File is empty."
SNIPPET_EMPTY == "Snippet is empty."

Placeholder(text) == Some([kind |-> "placeholder", text |-> text])

\* A loop that sets no snippet before it looks for the file.
DefaultSnippet_None == None

\* f["snippet"] as the loop sets it before it looks for the file
DefaultSnippet == Placeholder(NOT_FOUND)

Maximum(a, b) == IF a > b THEN a ELSE b
Minimum(a, b) == IF a < b THEN a ELSE b

\* The file of a finding: absent, not readable (open or readlines raises),
\* or a text of blank lines and lines of code.
SourceFiles ==
    {[state |-> "missing", lines |-> <<>>],
     [state |-> "unreadable", lines |-> <<>>]}
    \cup {[state |-> "readable", lines |-> t] :
             t \in SeqsUpTo({BLANK, CODE}, MaxFileLines)}

\* The line of a finding: None (a Gitleaks entry without StartLine) or a
\* number; SARIF results without a region and ZAP alerts have 0.
ReportedLines == {None} \cup {Some(l) : l \in 0..MaxLine}

\* The body of the loop for one finding: the default stays where the file
\* is absent, where reading raises and where the line is not a number
\* (each error is caught and printed); otherwise lines[start:end], or a
\* placeholder where the file or the window is empty.
SnippetOf(file, line) ==
    IF file.state # "readable" THEN DefaultSnippet
    ELSE IF file.lines = <<>> THEN Placeholder(FILE_EMPTY)
    ELSE IF IsNone(line) THEN DefaultSnippet
    ELSE LET actual_line == Val(line) - 1
             start == Maximum(0, actual_line - 5)
             end == Minimum(Len(file.lines), actual_line + 5)
             extracted_snippet == SubSeq(file.lines, start + 1, end)
         IN  IF IsBlankText(extracted_snippet)
             THEN Placeholder(SNIPPET_EMPTY)
             ELSE Some([kind |-> "window", text |-> extracted_snippet,
                        from |-> start + 1, to |-> end])

\* populate_snippets over a list of findings of one file.
populate_snippets(file, lines) ==
    [i \in DOMAIN lines |-> SnippetOf(file, lines[i])]

PopulateFindings ==
    /\ io.fn = "populate"
    /\ io' = [io EXCEPT !.fn = "populate_snippets",
                        !.out = Some(populate_snippets(Val(io.arg).file,
                                                       Val(io.arg).lines))]
    /\ UNCHANGED <<coreVars, pub, drv, progress, dash>>

\* A list of up to MaxFindings findings of one file, not yet populated.
InitSnippet ==
    /\ InitWorker
    /\ budget = [jobs |-> 0, findings |-> MaxFindings, snippets |-> Snippets]
    /\ drv = NoDriver
    /\ progress = NoProgress
    /\ dash = NoDash
    /\ pub = NoPub
    /\ \E file \in SourceFiles, lines \in SeqsUpTo(ReportedLines, MaxFindings) :
          io = [fn |-> "populate", arg |-> Some([file |-> file, lines |-> lines]),
                out |-> None, raised |-> FALSE]

\* ---------------------------------------------------------------- publisher
\* create_security_pr(repo_name, branch_name, patch_content, file_path,
\* issue_message, temp_dir).  node_publish calls it once for every finding
\* that has a patch, each time with the same temp_dir (the working copy of
\* the scan) and a fresh branch name.  Findings are numbered by their call;
\* finding k's patch is the set {k}, its branch is branch k, and branch 0
\* is the commit the working copy was cloned at.  Each finding patches a
\* file of its own.

\* The steps of one call, in the order of the function body.
PUBLISH_STEPS ==
    <<"write", "config", "branch", "stage", "commit", "push", "pull">>

StepAfter(step) ==
    LET i == CHOOSE n \in 1..Len(PUBLISH_STEPS) : PUBLISH_STEPS[n] = step
    IN  IF i = Len(PUBLISH_STEPS) THEN "idle" ELSE PUBLISH_STEPS[i + 1]

\* A step raised and the error goes on as if it had not.
OnStepError_Swallow(p) == [p EXCEPT !.pc = StepAfter(p.pc)]

\* A step raised (open() failed, or a git command run with check=True
\* exited non-zero, or the GitHub API refused): the except clause prints
\* the error and raises it again, so no later step runs and nothing is
\* returned.
OnStepError(p) == [p EXCEPT !.pc = "idle", !.result = "error"]

\* A step ran to its end.
StepDone(p, step) ==
    [p EXCEPT !.done = Append(@, step), !.pc = StepAfter(step)]

PublisherStep(step, after) ==
    /\ pub.pc = step
    /\ \/ pub' = StepDone(after, step)
       \/ pub' = OnStepError(pub)
    /\ UNCHANGED <<coreVars, drv, progress, dash, io>>

CallPublisher ==
    /\ pub.pc = "idle"
    /\ pub.call < MaxPublished
    /\ pub' = [pub EXCEPT !.pc = "write", !.call = @ + 1, !.done = <<>>,
                          !.result = "none"]
    /\ UNCHANGED <<coreVars, drv, progress, dash, io>>

\* open(full_path, "w"); f.write(patch_content)
WritePatch ==
    PublisherStep("write", [pub EXCEPT !.tree = @ \cup {pub.call}])

\* git config user.email, git config user.name
ConfigureIdentity == PublisherStep("config", pub)

\* git checkout -b branch_name: the new branch starts at the commit that is
\* checked out, whichever branch that is, and becomes the checked-out one.
CreateBranch ==
    PublisherStep("branch",
        [pub EXCEPT !.commits = (pub.call :> pub.commits[pub.head]) @@ @,
                    !.head = pub.call])

\* git add file_path
StagePatch ==
    PublisherStep("stage",
        [pub EXCEPT !.index = @ \cup ({pub.call} \cap pub.tree),
                    !.tree = @ \ {pub.call}])

\* git commit -m: everything staged goes into a commit on the checked-out
\* branch.
CommitPatch ==
    PublisherStep("commit",
        [pub EXCEPT !.commits[pub.head] = @ \cup pub.index,
                    !.index = {}])

\* git push auth_url branch_name
PushBranch ==
    PublisherStep("push",
        [pub EXCEPT !.remote = (pub.call :> pub.commits[pub.call]) @@ @])

\* repo.create_pull(head=branch_name, base="main"); return pr.html_url
OpenPullRequest ==
    PublisherStep("pull",
        [pub EXCEPT !.pulls = @ \cup {pub.call}, !.result = "url"])

\* ------------------------------------------------------------ stack detector
\* detect_application_stack(source_path).  A source tree as the detector
\* sees it: its Dockerfile (absent, without an EXPOSE line, or with one and
\* its number), the first manifest the detector looks for that is there,
\* and the names of frameworks the manifest mentions.
ExposedPorts == {0, 8080}
FrameworkNames == {"flask", "fastapi", "django", "express", "nestjs"}

SourceTrees ==
    [dockerfile : {"absent", "plain", "expose"}, expose : ExposedPorts,
     manifest : {"none", "requirements.txt", "package.json", "go.mod"},
     names : SUBSET FrameworkNames]

\* _parse_dockerfile: int() of the digits after EXPOSE, if there are any
ParseDockerfile(t) ==
    IF t.dockerfile = "expose" THEN Some(t.expose) ELSE None

\* the language of the first manifest found
LanguageOf(t) ==
    CASE t.manifest = "requirements.txt" -> Some("python")
      [] t.manifest = "package.json" -> Some("node")
      [] t.manifest = "go.mod" -> Some("go")
      [] OTHER -> None

\* _analyze_python: the first of flask, fastapi, django in requirements.txt
AnalyzePython(names) ==
    CASE "flask" \in names -> Some("flask")
      [] "fastapi" \in names -> Some("fastapi")
      [] "django" \in names -> Some("django")
      [] OTHER -> None

\* _analyze_node: express, overwritten by nest, from the dependencies
AnalyzeNode(names) ==
    CASE "nestjs" \in names -> Some("nest")
      [] "express" \in names -> Some("express")
      [] OTHER -> None

FrameworkOf(t) ==
    CASE t.manifest = "requirements.txt" -> AnalyzePython(t.names)
      [] t.manifest = "package.json" -> AnalyzeNode(t.names)
      [] OTHER -> None

\* Step 3: the default port of a framework, or of the language java
DefaultPort(framework, language) ==
    CASE framework = Some("flask") -> Some(5000)
      [] framework = Some("fastapi") -> Some(8000)
      [] framework = Some("django") -> Some(8000)
      [] framework = Some("express") -> Some(3000)
      [] language = Some("java") -> Some(8080)
      [] OTHER -> None

\* The truth value of a port: None and 0 are false.  A framework is a
\* name or None, and every name is true.
Truthy(port) == ~IsNone(port) /\ Val(port) # 0

detect_application_stack(t) ==
    LET found == ParseDockerfile(t)
        language == LanguageOf(t)
        framework == FrameworkOf(t)
        port == IF ~Truthy(found) THEN
                    IF IsNone(DefaultPort(framework, language)) THEN found
                    ELSE DefaultPort(framework, language)
                ELSE found
        web == ~IsNone(framework) \/ Truthy(port)
    IN  [type |-> IF web THEN "web" ELSE "unknown",
         framework |-> framework, language |-> language, port |-> port,
         detected |-> web]

\* A call of detect_application_stack.
DetectApplicationStack ==
    /\ io.fn = "none"
    /\ io' = [io EXCEPT !.fn = "detect_application_stack",
                        !.out = Some(detect_application_stack(Val(io.arg)))]
    /\ UNCHANGED <<coreVars, pub, drv, progress, dash>>

\* The source tree is any of SourceTrees.
InitDetect ==
    /\ InitWorker
    /\ budget = [jobs |-> 0, findings |-> MaxFindings, snippets |-> Snippets]
    /\ drv = NoDriver
    /\ progress = NoProgress
    /\ dash = NoDash
    /\ pub = NoPub
    /\ \E tree \in SourceTrees : io = [NoCall EXCEPT !.arg = Some(tree)]

\* ------------------------------------------------------------ specification
Next ==
    \/ StartScanJob
    \/ CreateScan
    \/ CloneRepo
    \/ DetectStack
    \/ CallScanner
    \/ ParseReports
    \/ SetAnalyzing
    \/ ScanFinally
    \/ Finish
    \/ StartTriageJob
    \/ EnsureServicesReady
    \/ PrepareSource
    \/ PopulateSnippets
    \/ PrePersist
    \/ NodeTriage
    \/ NodeRedTeam
    \/ NodeRemediate
    \/ NodeSanityCheck
    \/ NodePublish
    \/ PersistAndComplete
    \/ BrainExcept
    \/ BrainFinally
    \/ Cancel

Spec == Init /\ [][Next]_vars

SpecDeliveries == InitDeliveries /\ [][Next]_vars

\* The jobs up to the point where the workflow is invoked with its initial
\* state, for lists of findings longer than the cap.
NextFeed ==
    \/ StartScanJob
    \/ CreateScan
    \/ CloneRepo
    \/ DetectStack
    \/ CallScanner
    \/ ParseReports
    \/ SetAnalyzing
    \/ ScanFinally
    \/ Finish
    \/ StartTriageJob
    \/ EnsureServicesReady
    \/ PrepareSource
    \/ PopulateSnippets
    \/ PrePersist
    \/ BrainExcept
    \/ BrainFinally
    \/ Cancel

SpecFeed == InitFeed /\ [][NextFeed]_vars

\* The scanner service: one call of run_scan.
NextDriver ==
    \/ RunScan
    \/ CopySource
    \/ BuildCommands
    \/ ToolFinishes
    \/ ReturnReports

SpecDriver == Init /\ [][NextDriver]_vars

\* The progress store under the calls of StateManager.
NextProgress ==
    \/ UpdateStage
    \/ UpdateStep
    \/ Complete
    \/ Fail

SpecProgress == Init /\ [][NextProgress]_vars

\* The dashboard deleting projects from a store at rest.
NextDelete ==
    \/ DeleteProject
    \/ DeleteRows
    \/ CleanCache

SpecDelete == InitDelete /\ [][NextDelete]_vars

\* Path cleaning over the uris.
SpecClean == InitClean /\ [][CleanPath]_vars

\* Parses of report files, one after another.
NextParse ==
    \/ ParseReport
    \/ ParseOther

SpecParse == InitParse /\ [][NextParse]_vars

\* Snippet population over the files and lines.
SpecSnippet == InitSnippet /\ [][PopulateFindings]_vars

\* A job up to the start of its workflow, and delete_project requests for
\* the projects, in any interleaving.
NextRace ==
    \/ NextFeed
    \/ NextDelete

SpecRace == InitRace /\ [][NextRace]_vars

\* Stack detection over the source trees.
SpecDetect == InitDetect /\ [][DetectApplicationStack]_vars

NextTraversal ==
    \/ RunScanAny
    \/ CopySource
    \/ BuildCommands

SpecTraversal == Init /\ [][NextTraversal]_vars

NextPublisher ==
    \/ CallPublisher
    \/ WritePatch
    \/ ConfigureIdentity
    \/ CreateBranch
    \/ StagePatch
    \/ CommitPatch
    \/ PushBranch
    \/ OpenPullRequest

SpecPublisher == Init /\ [][NextPublisher]_vars

\* ------------------------------------------------------------------ claims
ProducedDirs == {"brain", "clone"}

StatusOfJob == IF job.scan_id \in DOMAIN scans THEN scans[job.scan_id] ELSE "absent"

\* C1: in the workflow state and in the finding rows, a finding that has a
\* pr_url has a remediation_patch.
C1_PrUrlImpliesPatch ==
    /\ \A i \in DOMAIN wf.analyzed_findings :
         wf.analyzed_findings[i].pr_url # 0
             => ~IsNone(wf.analyzed_findings[i].remediation_patch)
    /\ \A i \in DOMAIN wf.findings :
         wf.findings[i].pr_url # 0 => ~IsNone(wf.findings[i].remediation_patch)
    /\ \A i \in DOMAIN rows :
         rows[i].pr_url # 0 => ~IsNone(rows[i].remediation_patch)

\* A pull request was opened and its URL is stored in the finding row.
C1_Witness ==
    \E i \in DOMAIN rows : rows[i].pr_url # 0 /\ ~IsNone(rows[i].remediation_patch)

\* C2: once sanity_check has run on a finding whose snippet contains a
\* critical word and whose patch, as remediate produced it, contains none,
\* the remediation_patch of the finding is None.
C2_CriticalDeletionNulled ==
    (/\ hist.sanity # "none"
     /\ wf.analyzed_findings # <<>>
     /\ ~IsNone(hist.produced)
     /\ Val(Last(wf.analyzed_findings).snippet).words # {}
     /\ \A w \in CRITICAL_MODULES : ~Contains(Val(hist.produced), w))
        => IsNone(Last(wf.analyzed_findings).remediation_patch)

\* C3: the Publisher is called for a finding only after sanity_check ran on
\* it and kept its patch, and it is called with that patch.
C3_PublishOnlyAfterSanityPass ==
    \A p \in hist.pub_calls :
        /\ hist.sanity = "pass"
        /\ ~IsNone(p)
        /\ p = Last(wf.analyzed_findings).remediation_patch

\* The Publisher was called for a finding that sanity_check passed.
C3_Witness == hist.pub_calls # {} /\ hist.sanity = "pass"

\* C4: for a finding with verdict FP, red_team and remediate call neither
\* the model nor the sandbox, the finding has no patch and no pull request,
\* in the workflow state and in its row.
C4_FalsePositiveSkipped ==
    /\ (wf.analyzed_findings # <<>> /\ Last(wf.analyzed_findings).ai_verdict = "FP")
         => /\ hist.calls \subseteq {<<"llm", "triage">>}
            /\ hist.pub_calls = {}
    /\ \A i \in DOMAIN wf.analyzed_findings :
         wf.analyzed_findings[i].ai_verdict = "FP"
            => /\ IsNone(wf.analyzed_findings[i].remediation_patch)
               /\ wf.analyzed_findings[i].pr_url = 0
    /\ \A i \in DOMAIN rows :
         rows[i].ai_verdict = "FP"
            => IsNone(rows[i].remediation_patch) /\ rows[i].pr_url = 0

\* A finding with verdict FP went through all the nodes and was stored.
C4_Witness ==
    \E i \in DOMAIN rows : rows[i].ai_verdict = "FP"

\* C5: a scan status that is completed or failed is never changed again,
\* whatever messages are delivered.
C5_TerminalStatusKept ==
    [][\A s \in DOMAIN scans : scans[s] \in Terminal => scans'[s] = scans[s]]_vars

\* C6: the statuses one scan job writes to its Scan row are, in order,
\* scanning, analyzing, then completed or failed, or scanning then failed.
AllowedWrites ==
    { <<>>,
      <<"scanning">>,
      <<"scanning", "failed">>,
      <<"scanning", "analyzing">>,
      <<"scanning", "analyzing", "completed">>,
      <<"scanning", "analyzing", "failed">> }

C6_StatusOrder == job.kind = "scan" => hist.writes \in AllowedWrites

\* A scan job went through scanning and analyzing and ended failed.
C6_Witness ==
    job.kind = "scan" /\ job.pc = "done"
        /\ hist.writes = <<"scanning", "analyzing", "failed">>

\* C7: when the handler of a scan job whose Scan row was created has
\* returned, the status of the scan is completed or failed.
C7_ScanEndsTerminal ==
    (job.kind = "scan" /\ job.pc = "done" /\ hist.row_created)
        => StatusOfJob \in Terminal

\* C8: when the readiness wait of a scan job timed out, no analyzer was
\* launched for that job, and the job ends with the scan failed.
C8_ReadinessBeforeAnalyzers ==
    (job.kind = "scan" /\ hist.ready_timeout)
        => /\ ~hist.launched
           /\ (job.pc = "done" => StatusOfJob = "failed")

\* C9: a job that was cancelled after its Scan row existed ends with the
\* scan failed and its directories removed, and opens no pull request after
\* the cancellation.
C9_CancelledScanFailed ==
    /\ (hist.cancelled /\ job.pc = "done")
         => StatusOfJob = "failed" /\ fs \cap ProducedDirs = {}
    /\ ~hist.pr_after_cancel

\* C10: when a handler has returned, neither the brain_scan working copy
\* nor the clone directory exists.
C10_DirsRemoved ==
    job.pc \in {"done", "idle"} => fs \cap ProducedDirs = {}

\* A scan job made both directories and ended on an error that left
\* run_brain_background.
C10_Witness ==
    job.pc = "done" /\ hist.made = ProducedDirs /\ job.raised

\* C11: a database error raised while a workflow node records its outcome
\* on a finding does not abort the workflow: the step that suffers it goes
\* on to the next node.
C11_TelemetryErrorNoAbort ==
    [][\A node \in {"red_team", "sanity_check"} :
          (<<"db", node>> \in hist'.failed /\ <<"db", node>> \notin hist.failed)
              => job'.pc = Edge(node)]_vars

\* C12: a step in which the model, the sandbox or the Publisher raises goes
\* on exactly as a step without error does (to the next node, or from
\* publish to the next finding or the end), and a workflow that returns
\* after such an error has triaged every finding it was given.
C12_ServiceFailureContinues ==
    [][/\ (\E f \in hist'.failed \ hist.failed : f[1] \in Services)
            => job'.pc = IF job.pc = "publish" THEN ShouldContinue(wf')
                         ELSE Edge(job.pc)
       /\ (/\ job'.pc = "persist"
           /\ hist'.earlier_failed \/ (\E f \in hist'.failed : f[1] \in Services))
            => /\ wf'.current_index = Len(wf'.findings)
               /\ Len(wf'.analyzed_findings) = Len(wf'.findings)]_vars

\* A call raised while the first finding was processed, the second finding
\* was triaged all the same, and the scan ended completed.
C12_Witness ==
    /\ hist.earlier_failed
    /\ Len(wf.analyzed_findings) = 2
    /\ job.pc = "done"
    /\ StatusOfJob = "completed"

\* C13: when the Publisher raised for a finding, the finding has a pr_error
\* and no pr_url.
C13_PublisherFailureRecorded ==
    <<"publisher", "publish">> \in hist.failed
        => /\ ~IsNone(Last(wf.analyzed_findings).pr_error)
           /\ Last(wf.analyzed_findings).pr_url = 0

\* C14: when a job has returned and its scan is completed or failed, the
\* row of every finding the Publisher opened a pull request for holds the
\* URL of that pull request.
C14_PrUrlStored ==
    (job.pc = "done" /\ StatusOfJob \in Terminal)
        => \A i \in DOMAIN wf.analyzed_findings :
              LET f == wf.analyzed_findings[i]
              IN  f.pr_url # 0
                    => f.id \in DOMAIN rows /\ rows[f.id].pr_url = f.pr_url

\* The replies that, letters only and in upper case, contain TP.
RepliesWithTP == { <<"T", "P">>, <<"t", ".", "p">>, <<"H", "T", "T", "P">> }

\* C15: triage leaves every finding with the verdict TP or FP: TP exactly
\* when the reply of the model, letters only and in upper case, contains
\* TP, and FP when the model call raised.
C15_TriageVerdict ==
    /\ \A i \in DOMAIN wf.analyzed_findings :
          wf.analyzed_findings[i].ai_verdict \in {"TP", "FP"}
    /\ ~IsNone(hist.reply)
          => Last(wf.analyzed_findings).ai_verdict =
                IF Val(hist.reply) \in RepliesWithTP THEN "TP" ELSE "FP"
    /\ <<"llm", "triage">> \in hist.failed
          => Last(wf.analyzed_findings).ai_verdict = "FP"

\* The model replied t.p and the finding was given the verdict TP.
C15_Witness ==
    /\ hist.reply = Some(<<"t", ".", "p">>)
    /\ Last(wf.analyzed_findings).ai_verdict = "TP"

\* C17: once sanity_check has run on a finding for which remediate produced
\* an empty or blank patch, the remediation_patch of the finding is None and
\* the Publisher was not called for it.
C17_EmptyPatchNulled ==
    (/\ hist.sanity # "none"
     /\ ~IsNone(hist.produced)
     /\ IsBlankText(Val(hist.produced)))
        => /\ IsNone(Last(wf.analyzed_findings).remediation_patch)
           /\ hist.pub_calls = {}

\* C18: once sanity_check has run on a finding that carried a patch, the
\* last entry of the sandbox log of the finding is the SANITY_CHECK entry of
\* that run: a pass entry when the patch was kept, a blocked entry else.
C18_SanityLogged ==
    (hist.sanity # "none" /\ ~IsNone(hist.produced))
        => LET f == Last(wf.analyzed_findings)
           IN  /\ f.id \in DOMAIN rows
               /\ rows[f.id].sandbox_logs # <<>>
               /\ Last(rows[f.id].sandbox_logs) =
                     <<"SANITY_CHECK", ~IsNone(f.remediation_patch)>>

\* C16: whatever the length of the list a job is given, the workflow is
\* started with, and rows are stored for, the first 20 findings of the list
\* in their order, and no more.
C16_CapApplied ==
    /\ Len(wf.findings) <= 20
    /\ Len(rows) <= 20
    /\ job.pc \in {"snippets", "prepersist", "triage"} => Len(job.findings) <= 20
    /\ job.pc = "triage"
          => /\ Len(wf.findings) = IF hist.given < 20 THEN hist.given ELSE 20
             /\ \A i \in DOMAIN wf.findings :
                   wf.findings[i].src = i /\ rows[wf.findings[i].id].src = i

\* A job was given more than 20 findings and its workflow starts with 20.
C16_Witness ==
    job.pc = "triage" /\ hist.given > 20 /\ Len(wf.findings) = 20

\* C19: run_scan reports exactly one path for each tool that ended with an
\* exit code of its allow-list (0, and 1 and 2 for zap) and none for a tool
\* that ended otherwise or could not be launched; every tool of the run ends
\* and is judged, whatever the others did.
C19_ReportPerAllowedTool ==
    LET allowed(name) == IF name = "zap" THEN {0, 1, 2} ELSE {0}
        ok == {e[1] : e \in {x \in drv.exits :
                                 x[2] # <<>> /\ x[2][1] \in allowed(x[1])}}
    IN  /\ Len(drv.report_files) = Cardinality(ok)
        /\ {drv.report_files[i][1] : i \in DOMAIN drv.report_files} = ok
        /\ (drv.pc = "returned" /\ drv.semgrep_targets # <<>>)
              => {e[1] : e \in drv.exits} =
                    IF drv.target_url
                    THEN {"semgrep", "gitleaks", "trivy", "zap"}
                    ELSE {"semgrep", "gitleaks", "trivy"}

\* Three tools ran, one ended outside its allow-list, two paths are
\* reported.
C19_Witness ==
    /\ drv.pc = "returned"
    /\ ~drv.target_url
    /\ Cardinality(drv.exits) = 3
    /\ \E e \in drv.exits : e[2] = <<3>>
    /\ Len(drv.report_files) = 2

\* C20: in delta mode, once the commands are built, a changed file is in
\* the workspace exactly when it is in the source tree, semgrep is given
\* the workspace paths of the changed files that exist there, leading
\* separators removed, in their order, or the workspace directory when none
\* exists; and the run goes on to launch every tool.
C20_DeltaTargets ==
    (drv.changed_files # <<>> /\ drv.pc \in {"run", "returned"}
        /\ drv.semgrep_targets # <<>>)
        => LET name(f) == IF f = <<"b">> THEN "b" ELSE "a"
               wanted == [i \in DOMAIN drv.changed_files |->
                            <<WS, SEP, name(drv.changed_files[i])>>]
               inWs(q) == q \in drv.files
               present == SelectSeq(wanted, inWs)
           IN  /\ \A i \in DOMAIN drv.changed_files :
                     (wanted[i] \in drv.files)
                         <=> (<<SRC, SEP, name(drv.changed_files[i])>> \in drv.files)
               /\ drv.semgrep_targets =
                     IF present # <<>> THEN present ELSE << <<WS>> >>
               /\ drv.pc = "returned"
                     => Cardinality(drv.exits) = IF drv.target_url THEN 4 ELSE 3

\* Two changed files, one of which exists: semgrep is given that one.
C20_Witness ==
    /\ drv.pc = "run"
    /\ Len(drv.changed_files) = 2
    /\ drv.semgrep_targets = << <<WS, SEP, "a">> >>

\* C21: a delivery is acknowledged only when its handler returned without
\* error; a delivery whose handler raised is rejected without requeue.
C21_AckOnlyAfterSuccess ==
    \A i \in DOMAIN mq :
        /\ mq[i].outcome = "ack" => ~mq[i].raised
        /\ mq[i].raised => mq[i].outcome = "reject"

\* C22: whenever the row of a scan has status failed, the progress hash
\* scan:<id>:state of that scan has status failed and an error string.
C22_FailedInProgress ==
    \A s \in DOMAIN scans :
        scans[s] = "failed" =>
            /\ HGet(progress, s).status = Some("failed")
            /\ HGet(progress, s).error # None

\* C23: no call of update_stage, update_step, complete or fail hands an
\* error to its caller, whether or not the progress store is available.
C23_NoErrorToCaller ==
    io.fn \in {"update_stage", "update_step", "complete", "fail"} => ~io.raised

\* C24: no log record written by a scan or triage job carries a credential,
\* and no row of the store does.
C24_NoCredentialLogged == hist.leaks = {}

\* C25: delete_project is all-or-nothing: after a request that reported
\* success no scan of the project and no finding of its scans is left;
\* after one that reported failure no row has been deleted; and rows of
\* other projects are never deleted.
C25_AllOrNothing ==
    LET newScans == dash.gone_scans \ dash.before.scans
        newFindings == dash.gone_findings \ dash.before.findings
    IN  /\ dash.result = "success" =>
              /\ ScansOf(dash, dash.repo) = {}
              /\ \A fid \in LiveFindings(dash) :
                     dash.project[rows[fid].scan_id] # dash.repo
        /\ dash.result = "failed" => newScans = {} /\ newFindings = {}
        /\ \A sid \in newScans : dash.project[sid] = dash.repo
        /\ \A fid \in newFindings : dash.project[rows[fid].scan_id] = dash.repo

\* C26: cleaning a cleaned path changes nothing, and a cleaned path never
\* begins with /tmp/scans/<id>/ or /tmp/uploads/<id>/.
C26_CleanIdempotentClosed ==
    io.fn = "_clean_path" =>
        /\ clean_path(Val(io.out)) = Val(io.out)
        /\ TmpPrefixLen(Val(io.out)) = 0

\* The key a finding is compared under.
FindingKey(f) == <<f.tool, f.rule_id, f.file, f.line, f.message>>

FindingKeys(fsq) == [i \in DOMAIN fsq |-> FindingKey(fsq[i])]

\* The parses made so far.
Parses == IF io.fn = "extract_findings" THEN Val(io.out) ELSE <<>>

Populated == io.fn = "populate_snippets"
PopFile == Val(io.arg).file
PopLines == Val(io.arg).lines
PopSnippets == Val(io.out)

\* The window of the code is blank or empty for finding i.
BlankWindow(i) ==
    /\ PopFile.state = "readable" /\ PopFile.lines # <<>>
    /\ ~IsNone(PopLines[i])
    /\ \A k \in DOMAIN PopFile.lines :
          (Val(PopLines[i]) - 5 <= k /\ k <= Val(PopLines[i]) + 4)
              => PopFile.lines[k] = BLANK

\* C28: after snippet population every finding has a snippet, a window of
\* the source or a placeholder; an empty file, an empty window and a read
\* error give three placeholders that differ from one another.
C28_SnippetAlwaysSet ==
    Populated =>
        /\ \A i \in DOMAIN PopLines :
              /\ ~IsNone(PopSnippets[i])
              /\ Val(PopSnippets[i]).kind \in {"window", "placeholder"}
              /\ (PopFile.state = "readable" /\ PopFile.lines = <<>>)
                    => PopSnippets[i] = Placeholder(FILE_EMPTY)
              /\ BlankWindow(i) => PopSnippets[i] = Placeholder(SNIPPET_EMPTY)
              /\ PopFile.state = "unreadable"
                    => PopSnippets[i] = Placeholder(NOT_FOUND)
              /\ Val(PopSnippets[i]).kind = "window"
                    => ~IsBlankText(Val(PopSnippets[i]).text)
        /\ FILE_EMPTY # SNIPPET_EMPTY
        /\ FILE_EMPTY # NOT_FOUND
        /\ SNIPPET_EMPTY # NOT_FOUND

\* Two findings of a file that cannot be read have been given the
\* placeholder of the read error.
C28_Witness ==
    /\ Populated
    /\ PopFile.state = "unreadable"
    /\ Len(PopLines) = 2
    /\ \A i \in DOMAIN PopLines : PopSnippets[i] = Placeholder(NOT_FOUND)

\* C29: for a finding at line L >= 1 of a file of n >= 1 lines the snippet
\* is the window from 5 lines before to 5 lines after L clamped into
\* [1, n], cut at the ends of the file, and so contains the clamped line.
C29_WindowAroundClampedLine ==
    Populated =>
        \A i \in DOMAIN PopLines :
            (/\ PopFile.state = "readable" /\ PopFile.lines # <<>>
             /\ ~IsNone(PopLines[i]) /\ Val(PopLines[i]) >= 1)
            => LET n == Len(PopFile.lines)
                   c == Minimum(Maximum(Val(PopLines[i]), 1), n)
               IN  /\ Val(PopSnippets[i]).kind = "window"
                   /\ Val(PopSnippets[i]).from = Maximum(1, c - 5)
                   /\ Val(PopSnippets[i]).to = Minimum(n, c + 5)

\* C30: once sanity_check has run on a finding whose patch is not blank,
\* is not a mass deletion (a snippet of more than 10 lines with a patch of
\* fewer than 2), and either contains one of the critical words or belongs
\* to a snippet that contains none, the patch of the finding is the one
\* remediate produced, unchanged.
C30_OnlyStatedRejections ==
    (/\ hist.sanity # "none"
     /\ ~IsNone(hist.produced)
     /\ ~IsBlankText(Val(hist.produced))
     /\ LET snippet == Val(Last(wf.analyzed_findings).snippet)
            patch == Val(hist.produced)
        IN  /\ ~(snippet.lines > 10 /\ LineCount(patch) < 2)
            /\ \/ \E w \in CRITICAL_MODULES : Contains(patch, w)
               \/ snippet.words \cap CRITICAL_MODULES = {})
        => Last(wf.analyzed_findings).remediation_patch = hist.produced

\* C31: The Publisher performs its steps in a fixed order: write the patch,
\* configure the identity, create the branch, stage, commit, push, open the
\* pull request.  A step that fails stops every later step of the call, the
\* call ends with an error and returns no URL, and a pull request is opened
\* only for a branch that was pushed.
IsPrefix(a, b) == Len(a) <= Len(b) /\ SubSeq(b, 1, Len(a)) = a

C31_StepsInOrder ==
    /\ IsPrefix(pub.done, PUBLISH_STEPS)
    /\ pub.pc # "idle" => /\ pub.result = "none"
                          /\ Len(pub.done) < Len(PUBLISH_STEPS)
                          /\ pub.pc = PUBLISH_STEPS[Len(pub.done) + 1]
    /\ pub.result = "error" => pub.done # PUBLISH_STEPS
    /\ pub.result = "url" <=> (pub.call > 0 /\ pub.done = PUBLISH_STEPS)
    /\ pub.pulls \subseteq DOMAIN pub.remote
    /\ pub.call \in pub.pulls <=> pub.result = "url"

\* A call failed at its push: it ended with an error, having opened no pull
\* request, after an earlier call of the same scan went through.
C31_Witness ==
    /\ pub.call = 2
    /\ pub.pc = "idle"
    /\ pub.result = "error"
    /\ pub.done = SubSeq(PUBLISH_STEPS, 1, 5)
    /\ pub.pulls = {1}

\* C38: The branch of every pull request holds only the commit of the
\* finding the pull request was opened for, on top of the scanned commit.
C38_BranchHoldsOwnCommit ==
    \A b \in pub.pulls : pub.remote[b] \subseteq {b}

\* C32: in delta mode, for every entry of changed_files, with leading
\* separators or '..' parts or neither, the file that is copied lies inside
\* the source root and its copy lies inside the workspace of the scan: the
\* copy step reads no file outside target_path and makes no file outside
\* shared_src_dir.
C32_CopyInsideRoots ==
    [][(drv.pc = "copy" /\ drv.changed_files # <<>>)
          => /\ \A i \in DOMAIN drv.changed_files :
                   LET src_file == Join(SRC, Sanitize(drv.changed_files[i]))
                   IN  (Exists(drv.files, src_file) /\ drv'.files # drv.files)
                           => Inside(SRC, src_file)
             /\ \A q \in drv'.files \ drv.files : Inside(WS, q)]_vars

\* C37: for fixed report contents the findings handed to the workflow come
\* in the same order whatever order the tools finished in.  The findings
\* are those of the first report, then those of the second, and so on, so
\* the reports run_scan returns must come in one order for one set of tool
\* results: here the order the tools were submitted in.
C37_OrderOfReportsFixed ==
    LET rank(name) == CHOOSE n \in 1..4 :
                         <<"semgrep", "gitleaks", "trivy", "zap">>[n] = name
    IN  drv.pc = "returned"
            => \A i, j \in DOMAIN drv.report_files :
                  i < j => rank(drv.report_files[i][1]) < rank(drv.report_files[j][1])

\* C34: after every triage step the number of analyzed findings equals
\* current_index and the k-th analyzed finding is the k-th input finding
\* with annotations added; the red-team, remediate, sanity and publish
\* steps change nothing but the finding triaged last, and neither
\* current_index nor the number of analyzed findings.
Aligned(w) ==
    /\ Len(w.analyzed_findings) = w.current_index
    /\ \A k \in DOMAIN w.analyzed_findings :
          /\ k \in DOMAIN w.findings
          /\ w.analyzed_findings[k].src = w.findings[k].src
          /\ w.analyzed_findings[k].id = w.findings[k].id
          /\ w.analyzed_findings[k].snippet = w.findings[k].snippet

C34_AnalyzedFollowsIndex ==
    [][/\ Aligned(wf')
       /\ (job.pc = "triage" /\ wf' # wf)
             => /\ wf'.current_index = wf.current_index + 1
                /\ SubSeq(wf'.analyzed_findings, 1, wf.current_index)
                      = wf.analyzed_findings
       /\ (job.pc \in Nodes \ {"triage"})
             => /\ wf'.current_index = wf.current_index
                /\ wf'.findings = wf.findings
                /\ Len(wf'.analyzed_findings) = Len(wf.analyzed_findings)
                /\ \A k \in 1..(Len(wf.analyzed_findings) - 1) :
                      wf'.analyzed_findings[k] = wf.analyzed_findings[k]]_vars

\* The second of two findings has been triaged and patched, and the first
\* one has kept its own results.
C34_Witness ==
    /\ job.pc = "publish"
    /\ wf.current_index = 2
    /\ Len(wf.analyzed_findings) = 2
    /\ wf.analyzed_findings[2].remediation_patch # None
    /\ wf.analyzed_findings[1].ai_verdict = "FP"
    /\ wf.analyzed_findings[1].remediation_patch = None

\* C35: a workflow started with an empty list of findings ends without
\* processing a finding and without an error, and the scan gets status
\* completed: from its first step the run goes to the persist step.
C35_EmptyListCompletes ==
    [][(job.pc = "triage" /\ wf.findings = <<>>
          /\ hist'.cancelled = hist.cancelled)
          => job'.pc = "persist"]_vars

\* C36: whenever the row of a scan has status completed, the verdict and
\* the outcomes of every finding the workflow analyzed for that scan are
\* in the finding rows.
C36_ResultsWithCompleted ==
    \A k \in DOMAIN wf.analyzed_findings :
        LET f == wf.analyzed_findings[k]
        IN  (f.id \in DOMAIN rows /\ rows[f.id].scan_id \in DOMAIN scans
               /\ scans[rows[f.id].scan_id] = "completed")
               => /\ rows[f.id].ai_verdict = f.ai_verdict
                  /\ rows[f.id].remediation_patch = f.remediation_patch
                  /\ rows[f.id].pr_url = f.pr_url
                  /\ rows[f.id].red_team_success = f.red_team_success

\* C39: a run takes five steps for each finding and at most 20 findings,
\* so it never takes more steps than the recursion limit of 150, is never
\* cut off by it, and ends after exactly five steps per processed finding.
C39_FiveStepsPerFinding ==
    /\ job.steps <= RECURSION_LIMIT
    /\ 5 * TRIAGE_LIMIT <= RECURSION_LIMIT
    /\ (job.kind # "none" /\ job.steps > 0 /\ job.pc \notin Nodes
          /\ ~hist.cancelled)
          => job.steps = 5 * wf.current_index

\* C40: no finding row refers to a scan that no longer exists, in every
\* interleaving of delete_project with a scan job or a triage job of the
\* same project.
C40_NoOrphanFinding ==
    \A fid \in LiveFindings(dash) : rows[fid].scan_id \in LiveScans(dash)

\* C33: the detector returns type web with detected true exactly when a
\* framework or a port was determined (from the EXPOSE line, a manifest or
\* a framework default), and type unknown with detected false otherwise.
C33_WebIffFrameworkOrPort ==
    io.fn = "detect_application_stack"
        => LET r == Val(io.out)
               determined == ~IsNone(r.framework) \/ ~IsNone(r.port)
           IN  /\ determined => (r.type = "web" /\ r.detected)
               /\ ~determined => (r.type = "unknown" /\ ~r.detected)

====
